---- MODULE Spec2Model ----
(***************************************************************************)
(* Model of the document version-history service                           *)
(* (src/backend/services/versionHistory.js), its sanitizer                 *)
(* (SecurityMiddleware.sanitizeInput), the HTTP routes that call it, and   *)
(* the export service with its routes (src/backend/routes/export.js);      *)
(* the summarization service (src/backend/services/aiService.js), the PDF  *)
(* upload routes, and on the client the export menus and the undo and redo *)
(* of EnhancedEditor.                                                      *)
(*                                                                         *)
(* A JavaScript string is modelled as the sequence of its lexical pieces   *)
(* (words, a blank, a newline, a quote, a semicolon, a markup tag): the    *)
(* string is the concatenation of the pieces, and every piece is the TLA+  *)
(* string of exactly its characters, so Len of a piece is its length.      *)
(* A JSON request body can also carry a value that is not a string: an     *)
(* array holding one string is modelled as the marker ARRAY followed by    *)
(* the pieces of that string.                                              *)
(*                                                                         *)
(* A revision carries one field the code does not have, seq: the order of  *)
(* creation.  It stands for the identity of the JavaScript object (two     *)
(* revisions made in the same millisecond are equal field by field in the  *)
(* code but are still two objects), and no operation of the model reads it.*)
(***************************************************************************)
EXTENDS Integers, Sequences, FiniteSets, TLC

VARIABLES
    versions,   \* this.versions: Map documentId -> array of revisions
    now,        \* the millisecond clock read by Date.now() and new Date()
    nextSeq,    \* number of revisions created so far, plus one
    latest,     \* per document, seq of the revision its last successful save created
    last,       \* the last operation: its name, arguments, outcome, and the log before it
    step,       \* position in the end-to-end scenario (0 outside it)
    files,      \* the files of ExportService.tempDir: path -> what was written
    res,        \* the response of the last HTTP request that completed
    call,       \* the last call of a pure function: its arguments and its result
    ai,         \* the summarizeText request in progress and the provider calls it made
    inflight,   \* the POST /export requests in progress, each at one of its awaits
    upload,     \* the PDF upload request in progress and the files multer stored
    editor      \* EnhancedEditor: content, undoStack, redoStack

vars == <<versions, now, nextSeq, latest, last, step, files, res, call,
          ai, inflight, upload, editor>>

\* what the version-history and export routes never touch
beyond == <<ai, inflight, upload, editor>>

\* what the version-history service never touches
aside == <<files, res, call, beyond>>

----------------------------------------------------------------------------
(* Bounds of the exploration                                               *)

MaxClock == 1        \* the clock takes the values 0..MaxClock
MaxSaves == 3        \* revisions created in one behaviour of Spec
CapFill == 49        \* revisions saved one per millisecond before SpecCap explores
CapExtra == 2        \* revisions created in SpecCap after those
MaxPieces == 3       \* pieces of an argument of the sanitizer in SpecSanitize
MaxLines == 3        \* lines of a text in SpecDiff
MaxRequests == 4     \* summarizeText requests in one behaviour of SpecSummarize
MaxTempFiles == 3
MaxUploads == 4      \* POST /api/pdf requests in one behaviour of SpecPdf
MaxEdits == 3        \* entries of the undo stack of the editor
MaxExports == 2      \* POST /export requests in progress at the same time    \* files in the temporary directory beyond which SpecExport stops

Docs == {"d1", "d2"}

----------------------------------------------------------------------------
(* Strings                                                                 *)

SP == " "
NL == "\n"
QUOTE == "'"
SEMI == ";"
IMG == "<img>"
ESC_QUOTE == "&#x27;"
ESC_IMG == "&lt;img&gt;"
BARE_IMG == "&ltimg&gt"
ARRAY == "[array]"

\* typeof input === 'string'
IsString(input) == input = <<>> \/ Head(input) # ARRAY

\* String(input): a string is itself, an array of one string is that string
StringOf(input) == IF IsString(input) THEN input ELSE Tail(input)

\* /\s/ on the pieces of the model
IsSpace(tok) == tok \in {SP, NL}

\* /['"`;]/: the pieces that are one such character
IsInjectionChar(tok) == tok \in {QUOTE, SEMI}

\* /[\x00-\x1F\x7F]/
IsControl(tok) == tok \in {NL}

\* validator.escape: a quote and the angle brackets of a tag become entities
validatorEscape(s) ==
    [i \in 1..Len(s) |->
        IF s[i] = QUOTE THEN ESC_QUOTE ELSE IF s[i] = IMG THEN ESC_IMG ELSE s[i]]

\* DOMPurify.sanitize with ALLOWED_TAGS b,i,em,strong,u,br,p and no attributes:
\* an element outside the allow-list is dropped; text is parsed and written
\* back, so a character reference is decoded (with or without its semicolon)
\* and only the angle brackets are written as entities again.
DOMPurifySanitize(s) ==
    LET kept == SelectSeq(s, LAMBDA tok : tok # IMG)
    IN  [i \in 1..Len(kept) |->
            IF kept[i] = ESC_QUOTE THEN QUOTE
            ELSE IF kept[i] = BARE_IMG THEN ESC_IMG ELSE kept[i]]

\* .replace(/['"`;]/g, ''): the pieces that are such a character go, and the
\* entities of a tag lose their semicolons
RemoveInjectionChars(s) ==
    LET kept == SelectSeq(s, LAMBDA tok : ~IsInjectionChar(tok))
    IN  [i \in 1..Len(kept) |-> IF kept[i] = ESC_IMG THEN BARE_IMG ELSE kept[i]]

RECURSIVE TrimStart(_)
TrimStart(s) ==
    IF s = <<>> THEN <<>>
    ELSE IF IsSpace(Head(s)) THEN TrimStart(Tail(s)) ELSE s

RECURSIVE TrimEnd(_)
TrimEnd(s) ==
    IF s = <<>> THEN <<>>
    ELSE IF IsSpace(s[Len(s)]) THEN TrimEnd(SubSeq(s, 1, Len(s) - 1)) ELSE s

\* String.prototype.trim
Trim(s) == TrimEnd(TrimStart(s))

\* SecurityMiddleware.sanitizeInput
sanitizeInput(input) ==
    IF ~IsString(input) THEN validatorEscape(StringOf(input))
    ELSE LET purified  == DOMPurifySanitize(input)
             noInject  == RemoveInjectionChars(purified)
             noControl == SelectSeq(noInject, LAMBDA tok : ~IsControl(tok))
         IN  Trim(noControl)

\* s.split(/\s+/).filter(word => word.length > 0).length
wordCount(s) ==
    Cardinality({i \in 1..Len(s) :
        /\ ~IsSpace(s[i])
        /\ (i = 1 \/ IsSpace(s[i - 1]))})

RECURSIVE characterCount(_)
\* s.length
characterCount(s) ==
    IF s = <<>> THEN 0 ELSE Len(Head(s)) + characterCount(Tail(s))

\* s.split('\n').length
lineCount(s) == 1 + Cardinality({i \in 1..Len(s) : s[i] = NL})

RECURSIVE SplitLines(_)
\* s.split('\n'): the lines of s, in order
SplitLines(s) ==
    IF \A i \in 1..Len(s) : s[i] # NL THEN <<s>>
    ELSE LET k == CHOOSE i \in 1..Len(s) :
                      s[i] = NL /\ \A j \in 1..(i - 1) : s[j] # NL
         IN  <<SubSeq(s, 1, k - 1)>> \o SplitLines(SubSeq(s, k + 1, Len(s)))

----------------------------------------------------------------------------
(* Revisions and the store                                                 *)

RetentionCap == 50

EDIT == <<"edit">>
RESTORE == <<"restore">>
ANONYMOUS == <<"anonymous">>

NoMeta == [k \in {} |-> 0]

\* { wordCount, characterCount, lineCount, ...metadata }: the caller's keys last
SpreadCallerLast(metadata, content) ==
    LET derived == [wordCount      |-> wordCount(content),
                    characterCount |-> characterCount(content),
                    lineCount      |-> lineCount(content)]
    IN  [k \in DOMAIN metadata \cup DOMAIN derived |->
            IF k \in DOMAIN metadata THEN metadata[k] ELSE derived[k]]

\* { ...metadata, wordCount, characterCount, lineCount }
SpreadMetadata(metadata, content) ==
    LET derived == [wordCount      |-> wordCount(content),
                    characterCount |-> characterCount(content),
                    lineCount      |-> lineCount(content)]
    IN  [k \in DOMAIN metadata \cup DOMAIN derived |->
            IF k \in DOMAIN derived THEN derived[k] ELSE metadata[k]]

\* a revision that is not tagged with its document
NewVersionUntagged(documentId, content, userId, action, metadata, id, timestamp) ==
    LET sanitizedContent == sanitizeInput(content)
    IN  [id         |-> id,
         documentId |-> "",
         content    |-> sanitizedContent,
         userId     |-> sanitizeInput(IF userId = <<>> THEN ANONYMOUS ELSE userId),
         action     |-> sanitizeInput(action),
         timestamp  |-> timestamp,
         metadata   |-> SpreadMetadata(metadata, sanitizedContent),
         seq        |-> nextSeq]

\* the object literal of saveVersion; id is Date.now() on entry, timestamp the
\* later new Date()
NewVersion(documentId, content, userId, action, metadata, id, timestamp) ==
    LET sanitizedContent == sanitizeInput(content)
    IN  [id         |-> id,
         documentId |-> documentId,
         content    |-> sanitizedContent,
         userId     |-> sanitizeInput(IF userId = <<>> THEN ANONYMOUS ELSE userId),
         action     |-> sanitizeInput(action),
         timestamp  |-> timestamp,
         metadata   |-> SpreadMetadata(metadata, sanitizedContent),
         seq        |-> nextSeq]

\* this.versions.get(documentId) || []
Log(d) == IF d \in DOMAIN versions THEN versions[d] ELSE <<>>

\* push with the trim left out
PushNoTrim(documentVersions, version) == Append(documentVersions, version)

\* push, and a trim that drops the newest element instead of the first
PushAndPop(documentVersions, version) ==
    LET pushed == Append(documentVersions, version)
    IN  IF Len(pushed) > RetentionCap THEN SubSeq(pushed, 1, Len(pushed) - 1) ELSE pushed

\* documentVersions.push(version); if (length > 50) documentVersions.shift()
PushAndTrim(documentVersions, version) ==
    LET pushed == Append(documentVersions, version)
    IN  IF Len(pushed) > RetentionCap THEN Tail(pushed) ELSE pushed

RECURSIVE SortFrom(_, _)
\* The elements of arr whose timestamp is at most newest, those of a later
\* timestamp first and those of one timestamp in their order in arr
SortFrom(arr, newest) ==
    IF newest < 0 THEN <<>>
    ELSE SelectSeq(arr, LAMBDA v : v.timestamp = newest) \o SortFrom(arr, newest - 1)

\* a sort that leaves the array as it is
SortNothing(arr) == arr

\* Array.prototype.sort with the comparator of getVersions,
\* (a, b) => new Date(b.timestamp) - new Date(a.timestamp): newest first, and
\* stable, so revisions of one timestamp keep their order.  Every timestamp is
\* a past reading of the clock, so it lies in 0..now.
SortNewestFirst(arr) == SortFrom(arr, now)

\* versions.find(v => v.id === versionId): the first match, as a sequence of 0 or 1
Find(arr, versionId) ==
    LET hits == {i \in 1..Len(arr) : arr[i].id = versionId}
    IN  IF hits = {} THEN <<>>
        ELSE <<arr[CHOOSE i \in hits : \A j \in hits : i <= j]>>

\* a check that lets everything through
NeverFalsy(s) == FALSE

\* !x for a string argument: the empty (or missing) string is falsy
Falsy(s) == s = <<>>

\* !documentId: documents are named by whole strings, "" being the empty one
FalsyId(d) == d = ""

NoDiff == [added |-> <<>>, removed |-> <<>>, addedCount |-> 0, removedCount |-> 0,
           totalChanges |-> 0]

\* The record of an operation that has just run: err is the message of the Error
\* it threw ("" when it returned), ret what it returned (a single revision or
\* null as a sequence of 1 or 0), pre the stored array of the document before
\* it; input holds the arguments of a saveVersion and stats the object that
\* getVersionStats returned (each as a sequence of 1, empty for other operations)
Done(op, d, arg, err, ret, diff) ==
    [op |-> op, doc |-> d, arg |-> arg, ok |-> err = "", err |-> err, ret |-> ret,
     diff |-> diff, pre |-> Log(d), preHas |-> d \in DOMAIN versions,
     input |-> <<>>, stats |-> <<>>]

----------------------------------------------------------------------------
(* Operations                                                              *)

\* saveVersion(documentId, content, userId, action, metadata); actionOpt is <<>>
\* when the caller passes no action; t is the clock at new Date()
SaveAs(op, arg, documentId, content, userId, actionOpt, metadata, t) ==
    LET input == [content |-> content, userId |-> userId, action |-> actionOpt,
                  metadata |-> metadata]
    IN
    IF FalsyId(documentId) \/ Falsy(content)
    THEN /\ last' = [Done(op, documentId, arg, "Document ID and content are required",
                           <<>>, NoDiff) EXCEPT !.input = <<input>>]
         /\ UNCHANGED <<versions, now, nextSeq, latest>>
    ELSE LET action  == IF actionOpt = <<>> THEN EDIT ELSE actionOpt[1]
             version == NewVersion(documentId, content, userId, action, metadata, now, t)
         IN  /\ versions' =
                    [d \in DOMAIN versions \cup {documentId} |->
                        IF d = documentId
                        THEN PushAndTrim(Log(documentId), version)
                        ELSE versions[d]]
             /\ now' = t
             /\ nextSeq' = nextSeq + 1
             /\ latest' = [latest EXCEPT ![documentId] = version.seq]
             /\ last' = [Done(op, documentId, arg, "", <<version>>, NoDiff)
                            EXCEPT !.input = <<input>>]

SaveVersion(documentId, content, userId, actionOpt, metadata, t) ==
    /\ SaveAs("saveVersion", -1, documentId, content, userId, actionOpt, metadata, t)
    /\ UNCHANGED <<step, aside>>

\* The effect of versions.sort(...) inside getVersions: the stored array itself
\* is sorted (Array.prototype.sort sorts in place and returns the same array);
\* for an unknown document the array sorted is a fresh [] and the map is untouched
SortedInPlace(documentId) ==
    IF documentId \in DOMAIN versions
    THEN [versions EXCEPT ![documentId] = SortNewestFirst(@)]
    ELSE versions

\* What getVersions(documentId) returns
getVersions(documentId) == SortNewestFirst(Log(documentId))

\* What getLatestVersion(documentId) returns: versions[0] || null
getLatestVersion(documentId) ==
    LET sorted == getVersions(documentId)
    IN  IF sorted = <<>> THEN <<>> ELSE <<sorted[1]>>

\* What getVersion(documentId, versionId) returns
getVersion(documentId, versionId) == Find(Log(documentId), versionId)

RECURSIVE TotalWords(_)
\* versions.reduce((sum, v) => sum + v.metadata.wordCount, 0)
TotalWords(arr) ==
    IF arr = <<>> THEN 0 ELSE Head(arr).metadata.wordCount + TotalWords(Tail(arr))

\* Math.round(totalWords / count) for a count above 0: halves round up
RoundedAverage(totalWords, count) == (2 * totalWords + count) \div (2 * count)

\* v => ({ timestamp, action, wordCount }) over the array
Timeline(arr) ==
    [i \in 1..Len(arr) |->
        [timestamp |-> arr[i].timestamp, action |-> arr[i].action,
         wordCount |-> arr[i].metadata.wordCount]]

\* statistics that take the first element of the array for firstVersion
StatsHeadFirst(sorted) ==
    IF sorted = <<>>
    THEN [totalVersions |-> 0, firstVersion |-> <<>>, lastVersion |-> <<>>,
          averageWordCount |-> 0, totalEdits |-> 0]
    ELSE [totalVersions    |-> Len(sorted),
          firstVersion     |-> <<sorted[1]>>,
          lastVersion      |-> <<sorted[1]>>,
          averageWordCount |-> RoundedAverage(TotalWords(sorted), Len(sorted)),
          totalEdits       |-> Len(SelectSeq(sorted, LAMBDA v : v.action = EDIT)),
          timeline         |-> Timeline(sorted)]

\* The object getVersionStats builds from the array getVersions returned (null
\* as the empty sequence, a revision as a sequence of 1); the object of a
\* document without revisions has no timeline
VersionStats(sorted) ==
    IF sorted = <<>>
    THEN [totalVersions |-> 0, firstVersion |-> <<>>, lastVersion |-> <<>>,
          averageWordCount |-> 0, totalEdits |-> 0]
    ELSE [totalVersions    |-> Len(sorted),
          firstVersion     |-> <<sorted[Len(sorted)]>>,
          lastVersion      |-> <<sorted[1]>>,
          averageWordCount |-> RoundedAverage(TotalWords(sorted), Len(sorted)),
          totalEdits       |-> Len(SelectSeq(sorted, LAMBDA v : v.action = EDIT)),
          timeline         |-> Timeline(sorted)]

\* The four operations that go through getVersions: getVersions itself,
\* getLatestVersion, getVersionStats and exportVersionHistory.  What sort returns
\* is the stored array itself, now sorted.
ReadSorted(op, documentId) ==
    /\ IF FalsyId(documentId)
       THEN /\ last' = Done(op, documentId, -1, "Document ID is required", <<>>, NoDiff)
            /\ UNCHANGED versions
       ELSE /\ versions' = SortedInPlace(documentId)
            /\ LET sorted == IF documentId \in DOMAIN versions
                             THEN versions'[documentId] ELSE <<>>
               IN  last' = [Done(op, documentId, -1, "",
                                 IF op = "getLatestVersion"
                                 THEN (IF sorted = <<>> THEN <<>> ELSE <<sorted[1]>>)
                                 ELSE sorted,
                                 NoDiff)
                            EXCEPT !.stats = IF op = "getVersionStats"
                                             THEN <<VersionStats(sorted)>> ELSE <<>>]
    /\ UNCHANGED <<now, nextSeq, latest, step, aside>>

GetVersions(documentId) == ReadSorted("getVersions", documentId)

GetLatestVersion(documentId) == ReadSorted("getLatestVersion", documentId)

GetVersionStats(documentId) == ReadSorted("getVersionStats", documentId)

ExportVersionHistory(documentId) == ReadSorted("exportVersionHistory", documentId)

\* getVersion(documentId, versionId)
GetVersion(documentId, versionId) ==
    /\ last' = IF FalsyId(documentId)
               THEN Done("getVersion", documentId, versionId,
                         "Document ID and version ID are required", <<>>, NoDiff)
               ELSE Done("getVersion", documentId, versionId, "",
                         getVersion(documentId, versionId), NoDiff)
    /\ UNCHANGED <<versions, now, nextSeq, latest, step, aside>>

\* a positional filter: the lines of lines2 that differ from the line of lines1
\* at the same index
LinesNotAt(lines2, lines1) ==
    LET differs == {i \in 1..Len(lines2) : i > Len(lines1) \/ lines1[i] # lines2[i]}
        pick[i \in 0..Len(lines2)] ==
            IF i = 0 THEN <<>>
            ELSE IF i \in differs THEN Append(pick[i - 1], lines2[i]) ELSE pick[i - 1]
    IN  pick[Len(lines2)]

\* lines2.filter(line => !lines1.includes(line))
LinesNotIn(lines2, lines1) ==
    SelectSeq(lines2, LAMBDA line : \A i \in 1..Len(lines1) : lines1[i] # line)

\* the differences object of compareVersions for two contents
Differences(content1, content2) ==
    LET lines1 == SplitLines(content1)
        lines2 == SplitLines(content2)
        added == LinesNotIn(lines2, lines1)
        removed == LinesNotIn(lines1, lines2)
    IN  [added |-> added, removed |-> removed,
         addedCount |-> Len(added), removedCount |-> Len(removed),
         totalChanges |-> Len(added) + Len(removed)]

\* compareVersions(documentId, versionId1, versionId2); ret is <<v1, v2>>
CompareAs(documentId, versionId1, versionId2) ==
    LET v1 == Find(Log(documentId), versionId1)
        v2 == Find(Log(documentId), versionId2)
    IN  IF FalsyId(documentId)
        THEN Done("compareVersions", documentId, versionId1,
                  "Document ID and both version IDs are required", <<>>, NoDiff)
        ELSE IF v1 = <<>> \/ v2 = <<>>
        THEN Done("compareVersions", documentId, versionId1,
                  "One or both versions not found", <<>>, NoDiff)
        ELSE Done("compareVersions", documentId, versionId1, "", v1 \o v2,
                  Differences(v1[1].content, v2[1].content))

CompareVersions(documentId, versionId1, versionId2) ==
    /\ last' = CompareAs(documentId, versionId1, versionId2)
    /\ UNCHANGED <<versions, now, nextSeq, latest, step, aside>>

\* the metadata restoreVersion passes to saveVersion
RestoreMetadata(versionId, version) ==
    [restoredFrom |-> versionId, originalTimestamp |-> version.timestamp]

\* a restore that looks the revision up in what getVersions returns, and so
\* sorts the stored array before it fails
RestoreViaGetVersions(documentId, versionId, userId, t) ==
    LET version == Find(getVersions(documentId), versionId)
    IN  IF FalsyId(documentId)
        THEN /\ last' = Done("restoreVersion", documentId, versionId,
                             "Document ID and version ID are required", <<>>, NoDiff)
             /\ UNCHANGED <<versions, now, nextSeq, latest>>
        ELSE IF version = <<>>
        THEN /\ last' = Done("restoreVersion", documentId, versionId,
                             "Version not found", <<>>, NoDiff)
             /\ versions' = SortedInPlace(documentId)
             /\ UNCHANGED <<now, nextSeq, latest>>
        ELSE SaveAs("restoreVersion", versionId, documentId, version[1].content,
                    userId, <<RESTORE>>, RestoreMetadata(versionId, version[1]), t)

\* restoreVersion(documentId, versionId, userId); t is the clock at new Date()
RestoreAs(documentId, versionId, userId, t) ==
    LET version == getVersion(documentId, versionId)
    IN  IF FalsyId(documentId)
        THEN /\ last' = Done("restoreVersion", documentId, versionId,
                             "Document ID and version ID are required", <<>>, NoDiff)
             /\ UNCHANGED <<versions, now, nextSeq, latest>>
        ELSE IF version = <<>>
        THEN /\ last' = Done("restoreVersion", documentId, versionId,
                             "Version not found", <<>>, NoDiff)
             /\ UNCHANGED <<versions, now, nextSeq, latest>>
        ELSE SaveAs("restoreVersion", versionId, documentId, version[1].content,
                    userId, <<RESTORE>>, RestoreMetadata(versionId, version[1]), t)

RestoreVersion(documentId, versionId, userId, t) ==
    /\ RestoreAs(documentId, versionId, userId, t)
    /\ UNCHANGED <<step, aside>>

\* arr.slice(start): a negative start counts from the end
Slice(arr, start) ==
    LET from == IF start < 0
                THEN (IF Len(arr) + start < 0 THEN 0 ELSE Len(arr) + start)
                ELSE (IF start > Len(arr) THEN Len(arr) ELSE start)
    IN  SubSeq(arr, from + 1, Len(arr))

\* versions.slice(-keepCount)
RecentVersions(arr, keepCount) == Slice(arr, 0 - keepCount)

\* cleanupOldVersions(documentId, keepCount)
CleanupOldVersions(documentId, keepCount) ==
    /\ IF FalsyId(documentId)
       THEN /\ last' = Done("cleanupOldVersions", documentId, keepCount,
                            "Document ID is required", <<>>, NoDiff)
            /\ UNCHANGED versions
       ELSE /\ last' = Done("cleanupOldVersions", documentId, keepCount, "", <<>>, NoDiff)
            /\ IF documentId \notin DOMAIN versions \/ Len(Log(documentId)) <= keepCount
               THEN UNCHANGED versions
               ELSE versions' = [versions EXCEPT
                                    ![documentId] = RecentVersions(@, keepCount)]
    /\ UNCHANGED <<now, nextSeq, latest, step, aside>>

\* the clock advances between two requests, up to limit
TickTo(limit) ==
    /\ now < limit
    /\ now' = now + 1
    /\ UNCHANGED <<versions, nextSeq, latest, last, step, aside>>

Tick == TickTo(MaxClock)

----------------------------------------------------------------------------
(* The HTTP routes of the version history (routes/versionHistory.js).  A   *)
(* path parameter is never empty, so the routes' own checks of documentId  *)
(* and versionId never fire; the check of the body's content does.         *)

NoResponse ==
    [route |-> "none", status |-> 0, error |-> "", contentType |-> "",
     filename |-> <<>>, format |-> "", content |-> <<>>, ran |-> "", wrote |-> {}]

\* res.status(status).json({ success, error }) of a route
Json(route, status, error) ==
    [NoResponse EXCEPT !.route = route, !.status = status, !.error = error,
                       !.contentType = "application/json"]

\* POST /documents/:documentId/versions
SaveRoute(documentId, body, t) ==
    /\ IF FalsyId(documentId) \/ Falsy(body.content)
       THEN /\ res' = Json("saveVersion", 400, "Document ID and content are required")
            /\ UNCHANGED <<versions, now, nextSeq, latest, last>>
       ELSE /\ SaveAs("saveVersion", -1, documentId, body.content, body.userId,
                      body.action, body.metadata, t)
            /\ res' = IF last'.ok THEN Json("saveVersion", 201, "")
                      ELSE Json("saveVersion", 500, "Failed to save version")
    /\ UNCHANGED <<step, files, call, beyond>>

\* GET /documents/:documentId/versions/:versionId
GetVersionRoute(documentId, versionId) ==
    /\ last' = Done("getVersion", documentId, versionId, "",
                    getVersion(documentId, versionId), NoDiff)
    /\ res' = IF last'.ret = <<>> THEN Json("getVersion", 404, "Version not found")
              ELSE Json("getVersion", 200, "")
    /\ UNCHANGED <<versions, now, nextSeq, latest, step, files, call, beyond>>

\* POST /documents/:documentId/versions/:versionId/restore
RestoreRoute(documentId, versionId, userId, t) ==
    /\ RestoreAs(documentId, versionId, userId, t)
    /\ res' = IF last'.ok THEN Json("restoreVersion", 200, "")
              ELSE Json("restoreVersion", 500, "Failed to restore version")
    /\ UNCHANGED <<step, files, call, beyond>>

\* GET /documents/:documentId/versions/:versionId1/compare/:versionId2
CompareRoute(documentId, versionId1, versionId2) ==
    /\ last' = CompareAs(documentId, versionId1, versionId2)
    /\ res' = IF last'.ok THEN Json("compareVersions", 200, "")
              ELSE Json("compareVersions", 500, "Failed to compare versions")
    /\ UNCHANGED <<versions, now, nextSeq, latest, step, files, call, beyond>>

----------------------------------------------------------------------------
(* The export service and its routes.  A file of the temporary directory   *)
(* is named by its filename.  The options of a request are its title,      *)
(* author, tags (an array of strings) and category, each empty when it is  *)
(* missing, and the flags includeMetadata and includeFrontmatter.          *)

NoFiles == [f \in {} |-> <<>>]

\* ExportService.getSupportedFormats(): format, extension and mimeType of the
\* four entries, in order
getSupportedFormats ==
    << [format |-> "pdf", extension |-> <<".", "pdf">>, mimeType |-> "application/pdf"],
       [format |-> "docx", extension |-> <<".", "docx">>,
        mimeType |-> "application/vnd.openxmlformats-officedocument.wordprocessingml.document"],
       [format |-> "markdown", extension |-> <<".", "md">>, mimeType |-> "text/markdown"],
       [format |-> "txt", extension |-> <<".", "txt">>, mimeType |-> "text/plain"] >>

\* supportedFormats.find(f => f.format === format), as a sequence of 0 or 1
FormatConfig(format) == SelectSeq(getSupportedFormats, LAMBDA f : f.format = format)

\* `export-${timestamp}.${extension}`: the timestamp is the clock, written out
generateFilename(extension) == <<"export-", ToString(now), ".", extension>>

\* options = {}
NoOptions ==
    [title |-> <<>>, author |-> <<>>, tags |-> <<>>, category |-> <<>>,
     includeMetadata |-> FALSE, includeFrontmatter |-> FALSE]

\* value || fallback, for a string
Or(value, fallback) == IF value = <<>> THEN fallback ELSE value

\* new Date() written out (toISOString, toLocaleDateString, toLocaleTimeString)
DateText == <<ToString(now)>>

\* createSimplePDF(content, options): the title, an empty line, the content
createSimplePDF(content, options) ==
    Or(options.title, <<"Exported Document">>) \o <<NL, NL>> \o content

\* .replace(/&/g, '&amp;').replace(/</g, '&lt;').replace(/>/g, '&gt;')
XmlEscape(content) ==
    [i \in 1..Len(content) |->
        IF content[i] = BARE_IMG THEN "&amp;ltimg&amp;gt" ELSE content[i]]

\* createSimpleDOCX(content, options): the skeleton around the title and the
\* content
createSimpleDOCX(content, options) ==
    <<"<w:document>", "<w:t>">> \o Or(options.title, <<"Exported Document">>)
        \o <<"</w:t>", "<w:t>">> \o XmlEscape(content) \o <<"</w:t>", "</w:document>">>

RECURSIVE JsonItems(_)
\* the elements of an array of strings as JSON.stringify writes them
JsonItems(tags) ==
    IF tags = <<>> THEN <<>>
    ELSE <<"\"">> \o Head(tags) \o <<"\"">>
             \o (IF Len(tags) > 1 THEN <<",">> ELSE <<>>) \o JsonItems(Tail(tags))

\* JSON.stringify(value) for an array of strings
JsonStringify(tags) == <<"[">> \o JsonItems(tags) \o <<"]">>

\* createFrontmatter(options)
createFrontmatter(options) ==
    <<"---", NL, "title: ">> \o Or(options.title, <<"Exported Document">>)
        \o <<NL, "date: ">> \o DateText
        \o <<NL, "author: ">> \o Or(options.author, <<"Meet with AI">>)
        \o <<NL, "tags: ">> \o JsonStringify(options.tags)
        \o <<NL, "category: ">> \o Or(options.category, <<"export">>)
        \o <<NL, "---">>

\* createMetadataFooter(options)
createMetadataFooter(options) ==
    <<"---", NL, "*Exported from Meet with AI*", NL, "*Date: ">> \o DateText
        \o <<"*", NL, "*Time: ">> \o DateText \o <<"*">>

\* createTextHeader(options)
createTextHeader(options) ==
    <<"Title: ">> \o Or(options.title, <<"Exported Document">>)
        \o <<NL, "Date: ">> \o DateText \o <<NL, "Time: ">> \o DateText
        \o <<NL, "Author: ">> \o Or(options.author, <<"Meet with AI">>)
        \o <<NL, NL, "---">>

\* markdownContent of exportToMarkdown
MarkdownContent(sanitizedContent, options) ==
    LET withFront == IF options.includeFrontmatter
                     THEN createFrontmatter(options) \o <<NL, NL>> \o sanitizedContent
                     ELSE sanitizedContent
    IN  IF options.includeMetadata
        THEN withFront \o <<NL, NL>> \o createMetadataFooter(options)
        ELSE withFront

\* textContent of exportToText
TextContent(sanitizedContent, options) ==
    IF options.includeMetadata
    THEN createTextHeader(options) \o <<NL, NL>> \o sanitizedContent
    ELSE sanitizedContent

\* What a renderer returns once its file is written, and what it wrote
ExportResult(renderer, extension, contentType, payload) ==
    [renderer |-> renderer, filename |-> generateFilename(extension),
     contentType |-> contentType, payload |-> payload]

exportToPDF(content, options) ==
    ExportResult("exportToPDF", "pdf", "application/pdf",
                 createSimplePDF(sanitizeInput(content), options))

exportToDOCX(content, options) ==
    ExportResult("exportToDOCX", "docx",
                 "application/vnd.openxmlformats-officedocument.wordprocessingml.document",
                 createSimpleDOCX(sanitizeInput(content), options))

\* a Markdown renderer that names its file after the format tag
exportToMarkdownByTag(content, options) ==
    ExportResult("exportToMarkdown", "markdown", "text/markdown",
                 MarkdownContent(sanitizeInput(content), options))

exportToMarkdown(content, options) ==
    ExportResult("exportToMarkdown", "md", "text/markdown",
                 MarkdownContent(sanitizeInput(content), options))

exportToText(content, options) ==
    ExportResult("exportToText", "txt", "text/plain",
                 TextContent(sanitizeInput(content), options))

\* The switch of POST /export, as a sequence of 0 (default) or 1
ExportSwitch(format, content, options) ==
    IF format = "pdf" THEN <<exportToPDF(content, options)>>
    ELSE IF format = "docx" THEN <<exportToDOCX(content, options)>>
    ELSE IF format = "markdown" THEN <<exportToMarkdown(content, options)>>
    ELSE IF format = "txt" THEN <<exportToText(content, options)>>
    ELSE <<>>

\* The switch of POST /export/preview: only the text formats are rendered
PreviewSwitch(format, content, options) ==
    IF format = "markdown" THEN <<exportToMarkdown(content, options)>>
    ELSE IF format = "txt" THEN <<exportToText(content, options)>>
    ELSE <<>>

\* fs.writeFile(filePath, payload)
WriteFile(filePath, payload) ==
    [f \in DOMAIN files \cup {filePath} |-> IF f = filePath THEN payload ELSE files[f]]

\* fs.unlink(filePath)
Unlink(filePath) == [f \in DOMAIN files \ {filePath} |-> files[f]]

\* What the file system and the connection can do to one request
Outcomes == {"ok", "writeFails", "readFails", "sendFails", "unlinkFails"}

\* the response to a request for an export, before any renderer has run
ExportJson(route, body, status, error) ==
    [Json(route, status, error) EXCEPT !.format = body.format, !.content = body.content]

\* POST /export
Export(body, outcome) ==
    LET rendered == ExportSwitch(body.format, body.content, body.options)
    IN
    /\ IF Falsy(body.content) \/ body.format = ""
       THEN /\ res' = ExportJson("export", body, 400, "Content and format are required")
            /\ UNCHANGED files
       ELSE IF FormatConfig(body.format) = <<>> \/ rendered = <<>>
       THEN /\ res' = ExportJson("export", body, 400, "Unsupported export format")
            /\ UNCHANGED files
       ELSE IF outcome = "writeFails"
       THEN /\ res' = [ExportJson("export", body, 500, "Failed to export content")
                          EXCEPT !.ran = rendered[1].renderer]
            /\ UNCHANGED files
       ELSE IF outcome \in {"readFails", "sendFails"}
       THEN /\ res' = [ExportJson("export", body, 500, "Failed to export content")
                          EXCEPT !.ran = rendered[1].renderer,
                                 !.wrote = {rendered[1].filename}]
            /\ files' = WriteFile(rendered[1].filename, rendered[1].payload)
       ELSE /\ res' = [ExportJson("export", body, 200, "")
                          EXCEPT !.ran = rendered[1].renderer,
                                 !.wrote = {rendered[1].filename},
                                 !.filename = rendered[1].filename,
                                 !.contentType = rendered[1].contentType]
            /\ files' = IF outcome = "unlinkFails"
                        THEN WriteFile(rendered[1].filename, rendered[1].payload)
                        ELSE Unlink(rendered[1].filename)
    /\ UNCHANGED <<versions, now, nextSeq, latest, last, step, call, beyond>>

\* POST /export/preview
Preview(body, outcome) ==
    LET rendered == PreviewSwitch(body.format, body.content, body.options)
    IN
    /\ IF Falsy(body.content) \/ body.format = ""
       THEN /\ res' = ExportJson("preview", body, 400, "Content and format are required")
            /\ UNCHANGED files
       ELSE IF FormatConfig(body.format) = <<>>
       THEN /\ res' = ExportJson("preview", body, 400, "Unsupported export format")
            /\ UNCHANGED files
       ELSE IF rendered = <<>>
       THEN /\ res' = ExportJson("preview", body, 200, "")
            /\ UNCHANGED files
       ELSE IF outcome = "writeFails"
       THEN /\ res' = [ExportJson("preview", body, 500, "Failed to generate export preview")
                          EXCEPT !.ran = rendered[1].renderer]
            /\ UNCHANGED files
       ELSE /\ res' = [ExportJson("preview", body, 200, "")
                          EXCEPT !.ran = rendered[1].renderer,
                                 !.wrote = {rendered[1].filename}]
            /\ files' = WriteFile(rendered[1].filename, rendered[1].payload)
    /\ UNCHANGED <<versions, now, nextSeq, latest, last, step, call, beyond>>

----------------------------------------------------------------------------
(* POST /export, await by await.  The handler runs to its next await in    *)
(* one step; the file system completes the awaited operation in a later    *)
(* step, so that the requests in progress interleave at their awaits.  The *)
(* file system itself never fails here.                                    *)

ExportIds == 1..MaxExports

\* a request that has not arrived
IdleExport ==
    [pc |-> "idle", body |-> <<>>, filePath |-> <<>>, payload |-> <<>>,
     status |-> 0, sent |-> <<>>]

NoInflight == [r \in ExportIds |-> IdleExport]

\* the other variables, files apart
notInflight == <<versions, nextSeq, latest, last, step, res, call, ai, upload, editor>>

\* the handler up to await fs.writeFile(filePath, ...) in the renderer
ExportBegin(r, body) ==
    LET rendered == ExportSwitch(body.format, body.content, body.options)
    IN
    /\ inflight[r].pc = "idle"
    /\ inflight' = [inflight EXCEPT ![r] =
          IF Falsy(body.content) \/ body.format = ""
             \/ FormatConfig(body.format) = <<>> \/ rendered = <<>>
          THEN [IdleExport EXCEPT !.pc = "done", !.body = <<body>>, !.status = 400]
          ELSE [IdleExport EXCEPT !.pc = "write", !.body = <<body>>,
                                  !.filePath = rendered[1].filename,
                                  !.payload = rendered[1].payload]]
    /\ UNCHANGED <<now, files, notInflight>>

\* fs.writeFile completes; the handler goes on to await readFile(filePath)
ExportWritten(r) ==
    /\ inflight[r].pc = "write"
    /\ files' = WriteFile(inflight[r].filePath, inflight[r].payload)
    /\ inflight' = [inflight EXCEPT ![r].pc = "read"]
    /\ UNCHANGED <<now, notInflight>>

\* readFile completes: res.send(fileContent) and on to await cleanup, or, when
\* the file is not there, the catch block answers 500
ExportRead(r) ==
    /\ inflight[r].pc = "read"
    /\ inflight' = [inflight EXCEPT ![r] =
          IF inflight[r].filePath \in DOMAIN files
          THEN [@ EXCEPT !.pc = "cleanup", !.status = 200,
                         !.sent = files[inflight[r].filePath]]
          ELSE [@ EXCEPT !.pc = "done", !.status = 500]]
    /\ UNCHANGED <<now, files, notInflight>>

\* fs.unlink completes (cleanup swallows its error when the file is gone)
ExportCleaned(r) ==
    /\ inflight[r].pc = "cleanup"
    /\ files' = Unlink(inflight[r].filePath)
    /\ inflight' = [inflight EXCEPT ![r].pc = "done"]
    /\ UNCHANGED <<now, notInflight>>

----------------------------------------------------------------------------
(* The PDF routes (routes/pdf.js).  multer stores the uploaded file under  *)
(* uploads/pdfs before the handler runs; the handler has one await, the    *)
(* call of the PDF service, which reports a failure in its result and      *)
(* never throws.                                                           *)

\* 10 * 1024 * 1024
MaxFileSize == 10485760

\* no request yet, nothing in uploads/pdfs
NoUpload ==
    [pc |-> "idle", route |-> "", file |-> <<>>, status |-> 0, stored |-> {},
     served |-> 0]

\* the other variables
notUpload == <<versions, now, nextSeq, latest, last, step, files, res, call,
               ai, inflight, editor>>

\* the sizes of the file part of a request: none (no file part), or its bytes
FileSizes == {-1, 0, 2048}

\* speakerLabels of the form: absent, a JSON text, or not one
SpeakerLabels == {"", "{}", "{"}

\* validateFileUpload(file).valid; originalname and mimetype are set by multer
validateFileUpload(file) ==
    IF file = <<>> THEN FALSE
    ELSE IF file[1].size = 0 THEN FALSE
    ELSE ~(file[1].size > MaxFileSize)

\* fs.unlinkSync(filePath)
UnlinkSync(filePath) == upload.stored \ {filePath}

\* multer and the handler of POST /upload or POST /extract up to its await;
\* the stored file is named by the number of the request (Date.now() and a
\* random suffix make the name unique)
PdfBegin(route, size, speakerLabels) ==
    /\ upload.pc \in {"idle", "done"}
    /\ upload.served < MaxUploads
    /\ LET path == upload.served + 1
           file == IF size < 0 THEN <<>> ELSE <<[path |-> path, size |-> size]>>
           stored == IF file = <<>> THEN upload.stored ELSE upload.stored \cup {path}
           begun == [upload EXCEPT !.route = route, !.file = file, !.status = 0,
                                   !.stored = stored, !.served = path]
       IN  upload' =
             IF ~validateFileUpload(file)
             THEN [begun EXCEPT !.pc = "done", !.status = 400]
             ELSE IF route = "upload" /\ speakerLabels = "{"
             THEN \* JSON.parse throws: the catch block removes the file
                  [begun EXCEPT !.pc = "done", !.status = 500,
                                !.stored = stored \ {path}]
             ELSE [begun EXCEPT !.pc = "service"]
    /\ UNCHANGED notUpload

\* convertPdfToTranscript or extractTextFromPdf settles with its result
PdfSettled(success) ==
    /\ upload.pc = "service"
    /\ upload' = [upload EXCEPT !.pc = "done",
                                !.stored = UnlinkSync(upload.file[1].path),
                                !.status = IF success THEN 200 ELSE 400]
    /\ UNCHANGED notUpload

----------------------------------------------------------------------------
(* The export menus of the client: each <option> sends its value as the    *)
(* format of a POST /api/export/export.                                    *)

\* the <option> values of the Download menu of SummaryDisplay
SummaryDisplayMenu == {"txt", "md", "pdf", "docx"}

\* the <option> values of the Export menu of EnhancedEditor
EnhancedEditorMenu == {"pdf", "docx", "markdown", "txt"}

\* handleDownload(format) of SummaryDisplay
handleDownload(summary, format, outcome) ==
    Export([content |-> summary, format |-> format,
            options |-> [NoOptions EXCEPT !.title = <<"Meeting Summary">>,
                                          !.includeMetadata = TRUE]],
           outcome)

\* handleExport(format) of EnhancedEditor
handleExport(content, format, outcome) ==
    Export([content |-> content, format |-> format, options |-> NoOptions], outcome)

----------------------------------------------------------------------------
(* EnhancedEditor: content, undoStack and redoStack.  A handler reads the  *)
(* state of the render it was created in, and the component renders again *)
(* before the next event.  op is the last handler that ran and was the     *)
(* content before it.                                                      *)

\* useState(initialContent), useState([]), useState([])
NoEditor ==
    [content |-> <<>>, undoStack |-> <<>>, redoStack |-> <<>>, op |-> "none",
     was |-> <<>>]

\* the other variables
notEditor == <<versions, now, nextSeq, latest, last, step, files, res, call,
               ai, inflight, upload>>

\* content, undoStack and redoStack of a state of the component
Shown(e) == [content |-> e.content, undoStack |-> e.undoStack, redoStack |-> e.redoStack]

\* handleContentChange(newContent)
handleContentChange(e, newContent) ==
    [content |-> newContent, undoStack |-> Append(e.undoStack, e.content),
     redoStack |-> <<>>]

\* an undo that does not keep the content it leaves
handleUndoForgetful(e) ==
    IF Len(e.undoStack) > 0
    THEN [content |-> e.undoStack[Len(e.undoStack)],
          undoStack |-> SubSeq(e.undoStack, 1, Len(e.undoStack) - 1),
          redoStack |-> e.redoStack]
    ELSE Shown(e)

\* handleUndo()
handleUndo(e) ==
    IF Len(e.undoStack) > 0
    THEN [content |-> e.undoStack[Len(e.undoStack)],
          undoStack |-> SubSeq(e.undoStack, 1, Len(e.undoStack) - 1),
          redoStack |-> <<e.content>> \o e.redoStack]
    ELSE Shown(e)

\* handleRedo()
handleRedo(e) ==
    IF Len(e.redoStack) > 0
    THEN [content |-> e.redoStack[1],
          undoStack |-> Append(e.undoStack, e.content),
          redoStack |-> Tail(e.redoStack)]
    ELSE Shown(e)

\* handleApplyTemplate(template)
handleApplyTemplate(e, template) == [Shown(e) EXCEPT !.content = template]

\* the component after a handler has run
Rendered(op, shown) ==
    [content |-> shown.content, undoStack |-> shown.undoStack,
     redoStack |-> shown.redoStack, op |-> op, was |-> editor.content]

ContentChange(newContent) ==
    /\ Len(editor.undoStack) < MaxEdits
    /\ editor' = Rendered("edit", handleContentChange(editor, newContent))
    /\ UNCHANGED notEditor

Undo ==
    /\ editor' = Rendered("undo", handleUndo(editor))
    /\ UNCHANGED notEditor

Redo ==
    /\ editor' = Rendered("redo", handleRedo(editor))
    /\ UNCHANGED notEditor

ApplyTemplate(template) ==
    /\ editor' = Rendered("template", handleApplyTemplate(editor, template))
    /\ UNCHANGED notEditor

----------------------------------------------------------------------------
(* AIService.summarizeText.  A provider call is one await: the request     *)
(* waits at "groq" or "gemini" until the provider answers with a text,     *)
(* with nothing, or with an exception.                                     *)

\* this.groq and this.geminiModel, set by the constructor
groq == TRUE
geminiModel == TRUE

\* no request yet
NoSummary ==
    [pc |-> "idle", provider |-> "", content |-> <<>>, invoked |-> <<>>,
     groqAnswer |-> "none", inCatch |-> FALSE, ok |-> FALSE, result |-> <<>>,
     error |-> "", served |-> 0]


\* the other variables
notAi == <<versions, now, nextSeq, latest, last, step, files, res, call,
           inflight, upload, editor>>

\* what a provider can answer
Answers == {"text", "nothing", "throws"}

\* the text of an answer: response.choices[0].message.content, response.text()
AnswerText == <<SP, "Summary", SP>>

\* the guard of the fallback in the catch block, whatever the provider
FallbackAlways(provider) == geminiModel

\* the guard of the fallback in the catch block
Fallback(provider) == provider = "groq" /\ geminiModel

\* the request is over with an exception
Rejected(error) == [ai EXCEPT !.pc = "done", !.ok = FALSE, !.error = error]

\* the request is over with a summary
Resolved(text) == [ai EXCEPT !.pc = "done", !.ok = TRUE, !.result = <<Trim(text)>>]

\* the catch block of summarizeText, entered with an error of the try block
Catch(error) ==
    IF Fallback(ai.provider)
    THEN [ai EXCEPT !.pc = "gemini", !.inCatch = TRUE,
                    !.invoked = Append(@, "gemini")]
    ELSE Rejected("AI summarization failed")

\* summarizeText(content, prompt, provider) up to its first await; content is
\* one string or, as <<>>, null (formatContentForAI reads content.length)
SummarizeText(content, provider) ==
    /\ ai.pc \in {"idle", "done"}
    /\ ai.served < MaxRequests
    /\ LET fresh == [NoSummary EXCEPT !.provider = provider, !.content = content,
                                      !.served = ai.served + 1]
       IN  ai' = IF content = <<>>
                 THEN \* the try block throws, and so does the catch block when
                      \* it formats the content for the fallback
                      [fresh EXCEPT !.pc = "done",
                          !.error = IF Fallback(provider) THEN "TypeError"
                                    ELSE "AI summarization failed"]
                 ELSE IF provider = "groq" /\ groq
                 THEN [fresh EXCEPT !.pc = "groq", !.invoked = <<"groq">>]
                 ELSE IF provider = "gemini" /\ geminiModel
                 THEN [fresh EXCEPT !.pc = "gemini", !.invoked = <<"gemini">>]
                 ELSE IF Fallback(provider)
                 THEN [fresh EXCEPT !.pc = "gemini", !.inCatch = TRUE,
                                    !.invoked = <<"gemini">>]
                 ELSE [fresh EXCEPT !.pc = "done", !.error = "AI summarization failed"]
    /\ UNCHANGED notAi

\* summarizeWithGroq settles, inside the try block
GroqAnswers(answer) ==
    /\ ai.pc = "groq"
    /\ ai' = IF answer = "text"
             THEN [Resolved(AnswerText) EXCEPT !.groqAnswer = answer]
             ELSE [Catch("Groq") EXCEPT !.groqAnswer = answer]
    /\ UNCHANGED notAi

\* summarizeWithGemini settles, inside the try block or the catch block
GeminiAnswers(answer) ==
    /\ ai.pc = "gemini"
    /\ ai' = IF answer = "text" THEN Resolved(AnswerText)
             ELSE IF ai.inCatch
             THEN Rejected(IF answer = "nothing" THEN "No response from Gemini API"
                           ELSE "thrown by Gemini")
             ELSE Catch("Gemini")
    /\ UNCHANGED notAi

----------------------------------------------------------------------------
(* Calls of the pure functions, by themselves                              *)

NoCall == [fn |-> "none", x |-> <<>>, y |-> <<>>, out |-> <<>>]

\* sanitizeInput(x) for an argument that is waiting
ApplySanitize ==
    /\ call.fn = "input"
    /\ call' = [fn |-> "sanitizeInput", x |-> call.x, y |-> <<>>,
                out |-> sanitizeInput(call.x)]
    /\ UNCHANGED <<versions, now, nextSeq, latest, last, step, files, res, beyond>>

\* sanitizeInput on what it returned, as saveVersion does to the content that
\* restoreVersion hands back to it
SanitizeAgain ==
    /\ call.fn = "sanitizeInput"
    /\ call' = [fn |-> "sanitizeInput", x |-> call.out, y |-> <<>>,
                out |-> sanitizeInput(call.out)]
    /\ UNCHANGED <<versions, now, nextSeq, latest, last, step, files, res, beyond>>

\* what the renderer of a format writes for a content and options that are
\* waiting (y holds the format and the options)
RenderPayload ==
    /\ call.fn = "input"
    /\ call' = [fn |-> "render", x |-> call.x, y |-> call.y,
                out |-> ExportSwitch(call.y.format, call.x, call.y.options)[1].payload]
    /\ UNCHANGED <<versions, now, nextSeq, latest, last, step, files, res, beyond>>

\* the differences of compareVersions for two contents that are waiting
DiffContents ==
    /\ call.fn = "input"
    /\ call' = [fn |-> "compareVersions", x |-> call.x, y |-> call.y,
                out |-> Differences(call.x, call.y)]
    /\ UNCHANGED <<versions, now, nextSeq, latest, last, step, files, res, beyond>>

----------------------------------------------------------------------------
(* Inputs                                                                  *)

HelloWorld == <<"Hello", SP, "world">>
HelloBraveWorld == <<"Hello", SP, "brave", SP, "world">>
Unclean == <<SP, "Hello", QUOTE, SEMI, NL, IMG, SP, "there", SP>>

\* Request bodies of POST /documents/:documentId/versions
Bodies ==
    { [content |-> HelloWorld,      userId |-> <<>>,     action |-> <<>>,
       metadata |-> NoMeta],
      [content |-> Unclean,         userId |-> <<"u1">>, action |-> << <<"auto-save">> >>,
       metadata |-> [wordCount |-> 99]] }

\* a body whose content is the array [' Hello;\n'], and one without content
ArrayBody ==
    [content |-> <<ARRAY, SP, "Hello", SEMI, NL>>, userId |-> <<>>, action |-> <<>>,
     metadata |-> NoMeta]

EmptyBody == [content |-> <<>>, userId |-> <<>>, action |-> <<>>, metadata |-> NoMeta]

\* Version ids a request can name: Date.now().toString() of some clock value (the
\* decimal string of a number names the number, so ids are compared as numbers)
VersionIds == 0..MaxClock

\* keepCount of a cleanup request
KeepCounts == {0, 1, 2}

\* The clock at new Date(), given that Date.now() read now a few lines before
ClockAfter(limit) == now..(IF now < limit THEN now + 1 ELSE now)

\* all sequences over S of length up to n
SeqsUpTo(S, n) == UNION {[1..k -> S] : k \in 0..n}

\* the state after construction, but for the pure call
Fresh ==
    /\ versions = [d \in {} |-> <<>>]
    /\ now = 0
    /\ nextSeq = 1
    /\ latest = [d \in Docs |-> 0]
    /\ last = [op |-> "none", doc |-> "", arg |-> -1, ok |-> TRUE, err |-> "",
               ret |-> <<>>, diff |-> NoDiff, pre |-> <<>>, preHas |-> FALSE,
               input |-> <<>>, stats |-> <<>>]
    /\ step = 0
    /\ files = NoFiles
    /\ res = NoResponse
    /\ ai = NoSummary
    /\ inflight = NoInflight
    /\ upload = NoUpload
    /\ editor = NoEditor

Init == Fresh /\ call = NoCall

\* The requests of one step, addressed to the documents of D: at most maxSeq
\* revisions are created from the bodies, the clock stays within limit, restores name an id of
\* ids and cleanups a keepCount of keeps
Requests(D, bodies, maxSeq, limit, ids, keeps) ==
    \/ \E d \in D, b \in bodies, t \in ClockAfter(limit) :
          /\ nextSeq <= maxSeq
          /\ SaveVersion(d, b.content, b.userId, b.action, b.metadata, t)
    \/ \E d \in D, v \in ids, t \in ClockAfter(limit) :
          /\ nextSeq <= maxSeq
          /\ RestoreVersion(d, v, <<>>, t)
    \/ \E d \in D : GetVersions(d)
    \/ \E d \in D : GetLatestVersion(d)
    \/ \E d \in D : GetVersionStats(d)
    \/ \E d \in D : ExportVersionHistory(d)
    \/ \E d \in D, k \in keeps : CleanupOldVersions(d, k)

\* saveVersion called without a document id or without content
InvalidSave ==
    \E d \in {"", "d1"}, b \in Bodies \cup {EmptyBody} :
        /\ FalsyId(d) \/ b.content = <<>>
        /\ SaveVersion(d, b.content, b.userId, b.action, b.metadata, now)

Next ==
    \/ Tick
    \/ Requests({"d1"}, Bodies, MaxSaves, MaxClock, VersionIds, KeepCounts)
    \/ InvalidSave

Spec == Init /\ [][Next]_vars

----------------------------------------------------------------------------
(* A document filled up to the retention cap: CapFill requests, one per    *)
(* millisecond, save the same body; from then on requests are free (the    *)
(* clock advances between them, not inside one).                           *)

CapBodies == {b \in Bodies : b.content = Unclean}

CapVersionIds == {0, CapFill - 1}

CapKeepCounts == {0, RetentionCap - 1}

Filling == nextSeq <= CapFill

FillSave ==
    /\ Filling
    /\ now = nextSeq - 1
    /\ SaveVersion("d1", HelloWorld, <<>>, <<>>, NoMeta, now)

FillTick ==
    /\ Filling
    /\ now < nextSeq - 1
    /\ TickTo(CapFill)

NextCap ==
    \/ FillSave
    \/ FillTick
    \/ ~Filling /\ TickTo(CapFill + MaxClock)
    \/ ~Filling /\ Requests({"d1"}, CapBodies, CapFill + CapExtra, now,
                             CapVersionIds, CapKeepCounts)

SpecCap == Init /\ [][NextCap]_vars

----------------------------------------------------------------------------
(* The end-to-end scenario on a fresh document: save A, save B, compare A  *)
(* with B, restore A; the clock may advance between and inside the calls.  *)

ScenarioUsers == {<<>>, <<"u1">>}

\* the revision of the document that was created as number q
BySeq(d, q) == Log(d)[CHOOSE i \in 1..Len(Log(d)) : Log(d)[i].seq = q]

ScenarioSaveA ==
    /\ step = 0
    /\ \E d \in Docs, u \in ScenarioUsers, t \in ClockAfter(MaxClock + 1) :
          SaveAs("saveVersion", -1, d, HelloWorld, u, <<EDIT>>, NoMeta, t)
    /\ step' = 1
    /\ UNCHANGED aside

ScenarioSaveB ==
    /\ step = 1
    /\ \E u \in ScenarioUsers, t \in ClockAfter(MaxClock + 1) :
          SaveAs("saveVersion", -1, last.doc, HelloBraveWorld, u, <<EDIT>>, NoMeta, t)
    /\ step' = 2
    /\ UNCHANGED aside

ScenarioCompare ==
    /\ step = 2
    /\ last' = CompareAs(last.doc, BySeq(last.doc, 1).id, BySeq(last.doc, 2).id)
    /\ step' = 3
    /\ UNCHANGED <<versions, now, nextSeq, latest, aside>>

ScenarioRestore ==
    /\ step = 3
    /\ \E u \in ScenarioUsers, t \in ClockAfter(MaxClock + 1) :
          RestoreAs(last.doc, BySeq(last.doc, 1).id, u, t)
    /\ step' = 4
    /\ UNCHANGED aside

ScenarioTick ==
    /\ step < 4
    /\ TickTo(MaxClock + 1)

NextScenario ==
    \/ ScenarioSaveA
    \/ ScenarioSaveB
    \/ ScenarioCompare
    \/ ScenarioRestore
    \/ ScenarioTick

SpecScenario == Init /\ [][NextScenario]_vars

----------------------------------------------------------------------------
(* The HTTP routes of the version history on one document                  *)

RouteBodies == Bodies \cup {ArrayBody, EmptyBody}

NextRoutes ==
    \/ Tick
    \/ \E b \in RouteBodies, t \in ClockAfter(MaxClock) :
          /\ nextSeq <= MaxSaves
          /\ SaveRoute("d1", b, t)
    \/ \E v \in VersionIds : GetVersionRoute("d1", v)
    \/ \E v \in VersionIds, t \in ClockAfter(MaxClock) :
          /\ nextSeq <= MaxSaves
          /\ RestoreRoute("d1", v, <<>>, t)
    \/ \E v1 \in VersionIds, v2 \in VersionIds : CompareRoute("d1", v1, v2)

SpecRoutes == Init /\ [][NextRoutes]_vars

----------------------------------------------------------------------------
(* Saves and restores of contents that the sanitizer empties               *)

\* bodies whose content is one blank, and one newline
BlankBodies ==
    { [content |-> <<SP>>, userId |-> <<>>, action |-> <<>>, metadata |-> NoMeta],
      [content |-> <<NL>>, userId |-> <<>>, action |-> <<>>, metadata |-> NoMeta] }

NextBlank ==
    \/ Tick
    \/ \E b \in Bodies \cup BlankBodies, t \in ClockAfter(MaxClock) :
          /\ nextSeq <= MaxSaves
          /\ SaveVersion("d1", b.content, b.userId, b.action, b.metadata, t)
    \/ \E v \in VersionIds, t \in ClockAfter(MaxClock) :
          /\ nextSeq <= MaxSaves
          /\ RestoreVersion("d1", v, <<>>, t)

SpecBlank == Init /\ [][NextBlank]_vars

----------------------------------------------------------------------------
(* Two documents, written in turn                                          *)

TwoDocBodies == {b \in Bodies : b.content = HelloWorld}

NextTwoDocs ==
    \/ Tick
    \/ \E d \in Docs, b \in TwoDocBodies, t \in ClockAfter(MaxClock) :
          /\ nextSeq <= MaxSaves
          /\ SaveVersion(d, b.content, b.userId, b.action, b.metadata, t)
    \/ \E d \in Docs, v \in VersionIds, t \in ClockAfter(MaxClock) :
          /\ nextSeq <= MaxSaves
          /\ RestoreVersion(d, v, <<>>, t)
    \/ \E d \in Docs, k \in KeepCounts : CleanupOldVersions(d, k)

SpecTwoDocs == Init /\ [][NextTwoDocs]_vars

----------------------------------------------------------------------------
(* The export routes                                                       *)

ExportFormats == {"pdf", "docx", "markdown", "txt", "rtf", ""}

\* Request bodies of POST /export and POST /export/preview
ExportBodies ==
    {[content |-> c, format |-> f, options |-> NoOptions] :
        c \in {<<>>, Unclean}, f \in ExportFormats}

NextExport ==
    \/ Tick
    \/ \E b \in ExportBodies, o \in Outcomes :
          /\ Cardinality(DOMAIN files) < MaxTempFiles
          /\ Export(b, o)
    \/ \E b \in ExportBodies, o \in Outcomes :
          /\ Cardinality(DOMAIN files) < MaxTempFiles
          /\ Preview(b, o)

SpecExport == Init /\ [][NextExport]_vars

----------------------------------------------------------------------------
(* Summarization requests, one after the other                             *)

Providers == {"groq", "gemini", "openai"}

NextSummarize ==
    \/ \E c \in {<<>>, <<HelloWorld>>, <<Unclean>>}, p \in Providers :
          SummarizeText(c, p)
    \/ \E a \in Answers : GroqAnswers(a)
    \/ \E a \in Answers : GeminiAnswers(a)

SpecSummarize == Init /\ [][NextSummarize]_vars

----------------------------------------------------------------------------
(* Concurrent POST /export requests                                        *)

ConcurrentBodies ==
    {[content |-> c, format |-> f, options |-> NoOptions] :
        c \in {<<>>, HelloWorld, HelloBraveWorld}, f \in {"pdf", "txt"}}

NextConcurrent ==
    \/ \E r \in ExportIds, b \in ConcurrentBodies : ExportBegin(r, b)
    \/ \E r \in ExportIds : ExportWritten(r)
    \/ \E r \in ExportIds : ExportRead(r)
    \/ \E r \in ExportIds : ExportCleaned(r)
    \/ Tick

SpecConcurrent == Init /\ [][NextConcurrent]_vars

----------------------------------------------------------------------------
(* PDF uploads, one after the other                                        *)

NextPdf ==
    \/ \E route \in {"upload", "extract"}, size \in FileSizes, l \in SpeakerLabels :
          PdfBegin(route, size, l)
    \/ \E success \in BOOLEAN : PdfSettled(success)

SpecPdf == Init /\ [][NextPdf]_vars

----------------------------------------------------------------------------
(* Exports chosen from the menus of the client                             *)

NextMenu ==
    \/ Tick
    \/ \E c \in {HelloWorld}, f \in SummaryDisplayMenu, o \in Outcomes :
          /\ Cardinality(DOMAIN files) < MaxTempFiles
          /\ handleDownload(c, f, o)
    \/ \E c \in {HelloWorld}, f \in EnhancedEditorMenu, o \in Outcomes :
          /\ Cardinality(DOMAIN files) < MaxTempFiles
          /\ handleExport(c, f, o)

SpecMenu == Init /\ [][NextMenu]_vars

----------------------------------------------------------------------------
(* The editor under edits, undo, redo and templates                        *)

EditorContents == {<<>>, <<"Hello">>, HelloWorld}

NextEditor ==
    \/ \E c \in EditorContents : ContentChange(c)
    \/ Undo
    \/ Redo
    \/ ApplyTemplate(<<"Agenda">>)

SpecEditor == Init /\ [][NextEditor]_vars

----------------------------------------------------------------------------
(* The renderers by themselves, on options with and without unsafe text    *)

RenderOptions ==
    [title              : {<<>>, <<"Notes">>, <<IMG, "Notes", QUOTE>>},
     author             : {<<>>, <<"Ann", SEMI>>},
     tags               : {<<>>, << <<"a">>, <<IMG, "b">> >>},
     category           : {<<>>, <<SP, "misc">>},
     includeMetadata    : BOOLEAN,
     includeFrontmatter : BOOLEAN]

InitRender ==
    /\ Fresh
    /\ \E c \in {HelloWorld, Unclean}, f \in {"pdf", "docx", "markdown", "txt"},
          o \in RenderOptions :
          call = [fn |-> "input", x |-> c, y |-> [format |-> f, options |-> o],
                  out |-> <<>>]

NextRender == RenderPayload

SpecRender == InitRender /\ [][NextRender]_vars

----------------------------------------------------------------------------
(* The sanitizer by itself, on every short argument                        *)

Pieces == {SP, "a", QUOTE, SEMI, NL, IMG}

\* strings of up to MaxPieces pieces, and the arrays holding one of them
SanitizerInputs ==
    LET strings == SeqsUpTo(Pieces, MaxPieces)
    IN  strings \cup {<<ARRAY>> \o x : x \in strings}

InitSanitize ==
    /\ Fresh
    /\ \E x \in SanitizerInputs : call = [fn |-> "input", x |-> x, y |-> <<>>, out |-> <<>>]

NextSanitize == ApplySanitize \/ SanitizeAgain

SpecSanitize == InitSanitize /\ [][NextSanitize]_vars

----------------------------------------------------------------------------
(* The line diff by itself, on every pair of short texts                   *)

DiffLines == {<<"a">>, <<"b">>, <<"c">>, <<"d">>}

RECURSIVE JoinLines(_)
\* lines.join('\n')
JoinLines(lines) ==
    IF Len(lines) = 1 THEN lines[1] ELSE lines[1] \o <<NL>> \o JoinLines(Tail(lines))

\* texts of 1 to MaxLines lines
DiffTexts == {JoinLines(lines) : lines \in SeqsUpTo(DiffLines, MaxLines) \ {<<>>}}

InitDiff ==
    /\ Fresh
    /\ \E x \in DiffTexts, y \in DiffTexts :
          call = [fn |-> "input", x |-> x, y |-> y, out |-> <<>>]

NextDiff == DiffContents

SpecDiff == InitDiff /\ [][NextDiff]_vars

----------------------------------------------------------------------------
(* Properties                                                              *)

\* the revisions of an array, by identity
Ids(arr) == {arr[i].seq : i \in 1..Len(arr)}

Created == last.op \in {"saveVersion", "restoreVersion"} /\ last.ok

\* the k revisions of arr created last
NewestOf(arr, k) ==
    {q \in Ids(arr) : Cardinality({r \in Ids(arr) : r > q}) < k}

\* C1: in every reachable state the log of every document holds at most 50
\* revisions (getVersions(d).length <= 50); a save is one step, so no state
\* shows the append without the trim.
C1_RetentionCap ==
    \A d \in Docs : Len(getVersions(d)) <= RetentionCap /\ Len(Log(d)) <= RetentionCap

\* a save has just run on a log that already held 50 revisions
C1_SaveAtCap ==
    /\ last.op = "saveVersion"
    /\ last.ok
    /\ Len(last.pre) = RetentionCap
    /\ Len(Log(last.doc)) = RetentionCap

\* C2: for every document with a successful save, the revision created by its
\* most recent successful saveVersion/restoreVersion is still in its log.
C2_MostRecentKept ==
    \A d \in Docs : latest[d] # 0 => latest[d] \in Ids(Log(d))

\* C3: when a save pushes the log past 50, the revision removed is the one
\* created earliest and the revision just saved is kept.
C3_FifoEviction ==
    (Created /\ Len(last.pre) = RetentionCap) =>
        /\ Ids(last.pre) \ Ids(Log(last.doc)) =
               {q \in Ids(last.pre) : \A r \in Ids(last.pre) : q <= r}
        /\ last.ret[1].seq \in Ids(Log(last.doc))

\* C4: cleanupOldVersions(d, keepCount) with keepCount >= 1 leaves a log of
\* keepCount or fewer revisions unchanged, and otherwise leaves exactly the
\* keepCount most recently created revisions.
C4_CleanupKeepsNewest ==
    (last.op = "cleanupOldVersions" /\ last.ok /\ last.arg >= 1) =>
        IF Len(last.pre) <= last.arg
        THEN Log(last.doc) = last.pre
        ELSE /\ Len(Log(last.doc)) = last.arg
             /\ Ids(Log(last.doc)) = NewestOf(last.pre, last.arg)

\* C5: right after a successful saveVersion or restoreVersion returned R,
\* getLatestVersion(d) is R and R is the first element of getVersions(d).
C5_NewHead ==
    Created =>
        /\ getLatestVersion(last.doc) = last.ret
        /\ getVersions(last.doc)[1] = last.ret[1]

\* C6: getVersions(d) is sorted by timestamp, newest first; getLatestVersion(d)
\* is its first element, and is null exactly when getVersions(d) is empty.
C6_SortedNewestFirst ==
    \A d \in Docs :
        LET sorted == getVersions(d)
        IN  /\ \A i \in 1..Len(sorted), j \in 1..Len(sorted) :
                   i < j => sorted[i].timestamp >= sorted[j].timestamp
            /\ sorted # <<>> => getLatestVersion(d) = <<sorted[1]>>
            /\ (getLatestVersion(d) = <<>>) <=> (sorted = <<>>)

\* a stored array that getVersions has to reorder
C6_StoredOutOfOrder ==
    \E d \in Docs :
        /\ Len(Log(d)) >= 2
        /\ getVersions(d) # Log(d)
        /\ getLatestVersion(d) # <<Log(d)[1]>>

\* C7: no two revisions in the log of one document have the same id.
C7_UniqueIds ==
    \A d \in Docs :
        \A i \in 1..Len(Log(d)), j \in 1..Len(Log(d)) :
            i # j => Log(d)[i].id # Log(d)[j].id

\* C8: after R = saveVersion(d, ...), getVersion(d, R.id) returns a revision with
\* R's content, action and derived stats.
C8_SaveLookupRoundTrip ==
    (last.op = "saveVersion" /\ last.ok) =>
        LET R   == last.ret[1]
            got == getVersion(last.doc, R.id)
        IN  /\ got # <<>>
            /\ got[1].content = R.content
            /\ got[1].action = R.action
            /\ got[1].metadata.wordCount = R.metadata.wordCount
            /\ got[1].metadata.characterCount = R.metadata.characterCount
            /\ got[1].metadata.lineCount = R.metadata.lineCount

\* the revision restoreVersion found for the id it was given
Restored == Find(last.pre, last.arg)[1]

C10_EndToEnd ==
    /\ step = 3 =>
          /\ last.ok
          /\ \E i \in 1..Len(last.diff.added) : last.diff.added[i] = HelloBraveWorld
          /\ \E i \in 1..Len(last.diff.removed) : last.diff.removed[i] = HelloWorld
    /\ step = 4 =>
          LET A == BySeq(last.doc, 1)
          IN  /\ last.ok
              /\ getLatestVersion(last.doc) = last.ret
              /\ last.ret[1].content = HelloWorld
              /\ last.ret[1].action = RESTORE
              /\ last.ret[1].metadata.restoredFrom = A.id
              /\ last.ret[1].metadata.originalTimestamp = A.timestamp

\* the part of C10 that holds whenever the three calls fall in three different
\* milliseconds
C10_EndToEndDistinctMs ==
    (\A i \in 1..Len(Log(last.doc)), j \in 1..Len(Log(last.doc)) :
        i # j => /\ Log(last.doc)[i].id # Log(last.doc)[j].id
                 /\ Log(last.doc)[i].timestamp # Log(last.doc)[j].timestamp)
    => C10_EndToEnd

\* C11: a restoreVersion(d, versionId) whose versionId is not in the log of d
\* (d may have no log at all) throws 'Version not found', and the step leaves
\* the whole store as it was.
C11_RestoreNotFound ==
    [][(/\ last'.op = "restoreVersion"
        /\ last'.doc # ""
        /\ Find(last'.pre, last'.arg) = <<>>)
       => (/\ ~last'.ok
           /\ last'.err = "Version not found"
           /\ versions' = versions)]_vars

\* a restore has just failed on a log that holds revisions stored out of order
C11_RestoreMissed ==
    /\ last.op = "restoreVersion"
    /\ last.err = "Version not found"
    /\ Len(Log(last.doc)) >= 2
    /\ getVersions(last.doc) # Log(last.doc)

\* C12: a saveVersion without a document id or without content throws
\* 'Document ID and content are required', and the step leaves the whole store
\* as it was (no log is created, nothing is appended or evicted).
C12_SaveInvalid ==
    [][(/\ last'.op = "saveVersion"
        /\ last'.input # <<>>
        /\ (last'.doc = "" \/ last'.input[1].content = <<>>))
       => (/\ ~last'.ok
           /\ last'.err = "Document ID and content are required"
           /\ versions' = versions)]_vars

\* a save without content has just been refused for a document that has no log
C12_SaveRefused ==
    /\ last.op = "saveVersion"
    /\ ~last.ok
    /\ last.doc # ""
    /\ last.input[1].content = <<>>
    /\ last.doc \notin DOMAIN versions

\* a piece that holds a quote or a semicolon
HasInjectionChar(tok) == tok \in {QUOTE, SEMI, ESC_QUOTE, ESC_IMG}

\* no quote, no semicolon, no control character, no blank at either end
IsClean(s) ==
    /\ \A i \in 1..Len(s) : ~HasInjectionChar(s[i]) /\ ~IsControl(s[i])
    /\ s # <<>> => ~IsSpace(s[1]) /\ ~IsSpace(s[Len(s)])

\* C13: the revision a save has just stored holds the sanitizer's output on the
\* submitted content, userId and action, and the content of every stored
\* revision has no quote, no semicolon, no control character and no blank at
\* either end.
C13_StoredSanitized ==
    /\ (last.op = "saveVersion" /\ last.ok) =>
          LET in == last.input[1]
          IN  /\ last.ret[1].content = sanitizeInput(in.content)
              /\ last.ret[1].userId =
                     sanitizeInput(IF in.userId = <<>> THEN ANONYMOUS ELSE in.userId)
              /\ last.ret[1].action =
                     sanitizeInput(IF in.action = <<>> THEN EDIT ELSE in.action[1])
    /\ \A d \in Docs : \A i \in 1..Len(Log(d)) : IsClean(Log(d)[i].content)

\* C14: sanitizeInput applied to what sanitizeInput returned gives the same
\* string, for every argument.
C14_Idempotent ==
    call.fn = "sanitizeInput" => sanitizeInput(call.out) = call.out

\* the part of C14 that holds: the arguments that are strings
C14_IdempotentOnStrings ==
    (call.fn = "sanitizeInput" /\ IsString(call.x)) => sanitizeInput(call.out) = call.out

\* the lines of a text, as a set
LineSet(lines) == {lines[i] : i \in 1..Len(lines)}

\* picked is kept: the elements of lines that are not in the set gone, in their
\* order and as often as they occur
IsFiltered(picked, lines, gone) ==
    LET keep == {i \in 1..Len(lines) : lines[i] \notin gone}
    IN  /\ Len(picked) = Cardinality(keep)
        /\ \A i \in keep : picked[Cardinality({j \in keep : j <= i})] = lines[i]

ABC == <<"a", NL, "b", NL, "c">>
BCD == <<"b", NL, "c", NL, "d">>

\* C15: for two texts A and B split on newline, added is the lines of B equal to
\* no line of A and removed the lines of A equal to no line of B, the counts are
\* their lengths and totalChanges their sum; 'a\nb\nc' against 'b\nc\nd' gives
\* added = [d] and removed = [a]; comparing B with A swaps added and removed and
\* keeps totalChanges.
C15_LineDiff ==
    call.fn = "compareVersions" =>
        LET A == SplitLines(call.x)
            B == SplitLines(call.y)
            swapped == Differences(call.y, call.x)
        IN  /\ IsFiltered(call.out.added, B, LineSet(A))
            /\ IsFiltered(call.out.removed, A, LineSet(B))
            /\ call.out.addedCount = Len(call.out.added)
            /\ call.out.removedCount = Len(call.out.removed)
            /\ call.out.totalChanges = call.out.addedCount + call.out.removedCount
            /\ (call.x = ABC /\ call.y = BCD) =>
                   call.out.added = << <<"d">> >> /\ call.out.removed = << <<"a">> >>
            /\ swapped.added = call.out.removed
            /\ swapped.removed = call.out.added
            /\ swapped.totalChanges = call.out.totalChanges

\* 'a\nb\nc' has just been compared with 'b\nc\nd'
C15_ExampleDiffed ==
    /\ call.fn = "compareVersions"
    /\ call.x = ABC
    /\ call.y = BCD
    /\ call.out.totalChanges = 2

C17_DerivedStatsFixed ==
    \A d \in Docs : \A i \in 1..Len(Log(d)) :
        LET v == Log(d)[i]
        IN  /\ v.metadata.wordCount = wordCount(v.content)
            /\ v.metadata.characterCount = characterCount(v.content)
            /\ v.metadata.lineCount = lineCount(v.content)

\* a revision saved with a wordCount of the caller's is in the log, and an
\* operation has run on the document since
C17_CallerCountIgnored ==
    /\ last.op \in {"cleanupOldVersions", "getVersions", "restoreVersion"}
    /\ \E i \in 1..Len(Log(last.doc)) :
          /\ Log(last.doc)[i].userId = <<"u1">>
          /\ Log(last.doc)[i].metadata.wordCount = 2

\* C18: the restore route answers 404 when the service found no revision of the
\* id, and so does the compare route when either id is absent.
C18_NotFoundIs404 ==
    (/\ res.route \in {"restoreVersion", "compareVersions"}
     /\ last.op = res.route
     /\ last.err \in {"Version not found", "One or both versions not found"})
    => res.status = 404

\* s ends with suffix
EndsWith(s, suffix) ==
    /\ Len(s) >= Len(suffix)
    /\ SubSeq(s, Len(s) - Len(suffix) + 1, Len(s)) = suffix

\* C19: POST /export with content and a format tag that is no entry of
\* getSupportedFormats() answers 400 'Unsupported export format' (400 whatever
\* else is missing), runs no renderer and writes no file; with a tag of the
\* catalog a renderer runs, and the download carries the entry's mimeType as
\* content type and a filename that ends with the entry's extension.
C19_DispatchAgrees ==
    res.route = "export" =>
        LET entry == FormatConfig(res.format)
        IN  IF entry = <<>>
            THEN /\ res.status = 400
                 /\ res.ran = ""
                 /\ res.wrote = {}
                 /\ (res.content # <<>> /\ res.format # "") =>
                        res.error = "Unsupported export format"
            ELSE res.content # <<>> =>
                    /\ res.ran # ""
                    /\ res.status = 200 =>
                          /\ res.contentType = entry[1].mimeType
                          /\ EndsWith(res.filename, entry[1].extension)

\* a Markdown export has just been sent
C19_MarkdownSent ==
    /\ res.route = "export"
    /\ res.format = "markdown"
    /\ res.status = 200
    /\ res.ran = "exportToMarkdown"

\* C20: once a request to POST /export or POST /export/preview has completed,
\* no file that it wrote is left in the temporary directory.
C20_TempFilesReleased ==
    res.route \in {"export", "preview"} =>
        \A f \in res.wrote : f \notin DOMAIN files

\* the options with every text of the caller's passed through the sanitizer
SanitizedOptions(options) ==
    [options EXCEPT !.title = sanitizeInput(@), !.author = sanitizeInput(@),
                    !.category = sanitizeInput(@),
                    !.tags = [i \in 1..Len(@) |-> sanitizeInput(@[i])]]

\* C21: what a renderer writes, for each of the four formats, is what it writes
\* when title, author, tags and category have been through the sanitizer first
\* (the content is sanitized by the renderer itself).
C21_OptionsSanitized ==
    call.fn = "render" =>
        call.out = ExportSwitch(call.y.format, call.x,
                                SanitizedOptions(call.y.options))[1].payload

RECURSIVE Invocations(_, _)
\* how many times a provider was invoked by the request
Invocations(invoked, provider) ==
    IF invoked = <<>> THEN 0
    ELSE (IF Head(invoked) = provider THEN 1 ELSE 0)
             + Invocations(Tail(invoked), provider)

\* C22: a request for the default provider invokes Gemini exactly when its
\* Groq call has failed, once, and never after Groq returned a text; when the
\* fallback fails too the request fails after these two calls; a request that
\* names Gemini invokes Gemini at most once and nothing else.
C22_Fallback ==
    /\ ai.provider = "groq" =>
          /\ Invocations(ai.invoked, "groq") <= 1
          /\ Invocations(ai.invoked, "gemini")
                 = IF ai.groqAnswer \in {"nothing", "throws"} THEN 1 ELSE 0
          /\ ai.groqAnswer = "text" => ai.pc = "done" /\ ai.ok /\ ai.invoked = <<"groq">>
          /\ (ai.pc = "done" /\ ~ai.ok /\ ai.content # <<>>)
                 => ai.invoked = <<"groq", "gemini">>
    /\ ai.provider = "gemini" => ai.invoked \in {<<>>, <<"gemini">>}
    /\ ai.pc = "done" /\ ai.ok => ai.result = <<Trim(AnswerText)>>

\* both providers have failed for a request of the default provider
C22_BothFailed ==
    /\ ai.pc = "done" /\ ~ai.ok
    /\ ai.provider = "groq"
    /\ ai.invoked = <<"groq", "gemini">>

\* the operations that only read
ReadOps ==
    {"getVersions", "getVersion", "getLatestVersion", "compareVersions",
     "getVersionStats", "exportVersionHistory"}

\* C23: a step of getVersions, getVersion, getLatestVersion, compareVersions,
\* getVersionStats or exportVersionHistory leaves the store as it was: every
\* document's log holds the same revisions in the same order.
C23_ReadsKeepStore ==
    [][last'.op \in ReadOps => versions' = versions]_vars

\* C24: whatever the interleaving, a request that rendered its content is
\* answered 200 with the rendering of its own content.
C24_ExportsIsolated ==
    \A r \in ExportIds :
        (inflight[r].payload # <<>> /\ inflight[r].pc \in {"cleanup", "done"}) =>
            /\ inflight[r].status = 200
            /\ inflight[r].sent = inflight[r].payload

\* C25: restoreVersion(d, id) with id the id of a revision in the log of d
\* succeeds and returns a new revision, whatever content that revision holds;
\* it fails only when no revision of the log has the id.
C25_StoredRestorable ==
    (last.op = "restoreVersion" /\ last.doc # "") =>
        IF Find(last.pre, last.arg) # <<>>
        THEN /\ last.ok
             /\ last.ret # <<>>
             /\ last.ret[1].seq \notin Ids(last.pre)
        ELSE ~last.ok

\* C26: every stored revision has metadata.lineCount = 1, and a compareVersions
\* of two stored revisions reports nothing when their contents are equal and
\* otherwise exactly one added line (the second content) and one removed line
\* (the first content), so totalChanges is 0 or 2.
C26_SingleLine ==
    /\ \A d \in DOMAIN versions : \A i \in 1..Len(versions[d]) :
          versions[d][i].metadata.lineCount = 1
    /\ (last.op = "compareVersions" /\ last.ok) =>
          LET content1 == last.ret[1].content
              content2 == last.ret[2].content
          IN  /\ last.diff.totalChanges \in {0, 2}
              /\ IF content1 = content2
                 THEN last.diff = NoDiff
                 ELSE /\ last.diff.added = <<content2>>
                      /\ last.diff.removed = <<content1>>

\* the operations that write the store
WriteOps == {"saveVersion", "restoreVersion", "cleanupOldVersions"}

\* C27: a saveVersion, restoreVersion or cleanupOldVersions on d leaves the log
\* of every other document as it was (same revisions, same order, same
\* fields), and every revision in the log of d has documentId = d.
C27_DocumentsIsolated ==
    /\ [](\A d \in DOMAIN versions : \A i \in 1..Len(versions[d]) :
              versions[d][i].documentId = d)
    /\ [][last'.op \in WriteOps =>
             \A d2 \in Docs \ {last'.doc} :
                 /\ (d2 \in DOMAIN versions') = (d2 \in DOMAIN versions)
                 /\ d2 \in DOMAIN versions => versions'[d2] = versions[d2]]_vars

\* a cleanup has just shortened the log of one document while the other
\* document holds a log
C27_CleanupBesideOther ==
    /\ last.op = "cleanupOldVersions"
    /\ Len(Log(last.doc)) < Len(last.pre)
    /\ \E d2 \in Docs \ {last.doc} : Len(Log(d2)) >= 1

\* C28: when the response of POST /api/pdf/upload or POST /api/pdf/extract has
\* been sent, the file multer stored for the request is no longer on disk.
C28_UploadsReleased ==
    (upload.pc = "done" /\ upload.file # <<>>) =>
        upload.file[1].path \notin upload.stored

\* the format tags of the catalog
CatalogFormats == {getSupportedFormats[i].format : i \in 1..Len(getSupportedFormats)}

\* C29: every format a menu of the client sends to POST /api/export/export is
\* a format tag of getSupportedFormats(), and no such request is answered
\* 'Unsupported export format'.
C29_MenusInCatalog ==
    res.route = "export" =>
        /\ res.format \in CatalogFormats
        /\ res.error # "Unsupported export format"

\* C30: from a state with a non-empty undo stack, undo and then redo give back
\* the same content, undo stack and redo stack; an undo right after an edit
\* sets the content to what it was before the edit; an edit empties the redo
\* stack; undo on an empty undo stack and redo on an empty redo stack change
\* nothing.
C30_UndoRedo ==
    /\ Len(editor.undoStack) > 0 => handleRedo(handleUndo(editor)) = Shown(editor)
    /\ editor.op = "edit" =>
          /\ handleUndo(editor).content = editor.was
          /\ editor.redoStack = <<>>
    /\ Len(editor.undoStack) = 0 => handleUndo(editor) = Shown(editor)
    /\ Len(editor.redoStack) = 0 => handleRedo(editor) = Shown(editor)

\* an undo has just run with edits left to undo and others to redo
C30_UndoneTwice ==
    /\ editor.op = "undo"
    /\ Len(editor.undoStack) > 0
    /\ Len(editor.redoStack) >= 2

====
